---------------------------- MODULE Spec2Model ----------------------------
(***************************************************************************)
(* A model of pdf_parse.py: the text-to-record extraction                  *)
(* (parse_well_info, parse_stimulation_data) and the per-document          *)
(* orchestration of main with the two insert functions.                    *)
(*                                                                         *)
(* Representation.  A Python str is a sequence of one-character strings;   *)
(* None is the empty sequence <<>> and a value v that is not None is the   *)
(* one-element sequence <<v>>, so the empty str '' (which is not None) is  *)
(* << <<>> >>.  Regular expressions are modelled by what the backtracking  *)
(* matcher returns: the first success in its priority order.               *)
(***************************************************************************)
EXTENDS Integers, Sequences, FiniteSets, TLC

VARIABLES
    text,            \* the document text handed to a parser (str)
    pads_year,       \* whether the platform's strftime("%Y") zero-pads years below 1000
    pc,              \* position of the running function
    lines,           \* parse_stimulation_data: text.splitlines()
    i,               \* parse_stimulation_data: number of loop iterations done
    data,            \* parse_stimulation_data: the record being filled
    section_text,    \* parse_well_info: the isolated section
    well_data,       \* parse_well_info: the record being filled
    folder,          \* main: os.listdir(pdf_folder), as entries [pdf, text]
    n,               \* main: number of folder entries fully handled
    well_info_id,    \* main: the identity returned by insert_well_info
    stim_data,       \* main: the record returned by parse_stimulation_data
    well_info_tbl,   \* table well_info: sequence of rows, id = position
    stimulation_tbl, \* table stimulation_data: sequence of rows
    calls            \* main: the insert calls made so far, in order

vars == <<text, pads_year, pc, lines, i, data, section_text, well_data,
          folder, n, well_info_id, stim_data, well_info_tbl, stimulation_tbl, calls>>

scanVars == <<lines, i, data>>
wellVars == <<section_text, well_data>>
mainVars == <<folder, n, well_info_id, stim_data, well_info_tbl, stimulation_tbl, calls>>

---------------------------------------------------------------------------
(* Characters and str methods                                              *)

None == <<>>
Some(v) == <<v>>
IsSet(f) == f # None
\* Python truthiness of an Optional[str]: None and '' are falsy
Truthy(f) == f # None /\ f[1] # <<>>

Digits == {"0", "1", "2", "3", "4", "5", "6", "7", "8", "9"}
DigitSeq == <<"0", "1", "2", "3", "4", "5", "6", "7", "8", "9">>
DigitVal(c) == (CHOOSE k \in 1..10 : DigitSeq[k] = c) - 1
WhiteSpace == {" ", "\t", "\n"}
UpperSeq == <<"A", "B", "C", "D", "E", "F", "G", "H", "I", "J", "K", "L", "M",
              "N", "O", "P", "Q", "R", "S", "T", "U", "V", "W", "X", "Y", "Z">>
LowerSeq == <<"a", "b", "c", "d", "e", "f", "g", "h", "i", "j", "k", "l", "m",
              "n", "o", "p", "q", "r", "s", "t", "u", "v", "w", "x", "y", "z">>
Letters == {UpperSeq[k] : k \in 1..26} \cup {LowerSeq[k] : k \in 1..26}
WordChars == Letters \cup Digits \cup {"_"}
DigitDot == Digits \cup {"."}
DigitDash == Digits \cup {"-"}

Lower(c) ==
    IF \E k \in 1..26 : UpperSeq[k] = c
    THEN LowerSeq[CHOOSE k \in 1..26 : UpperSeq[k] = c]
    ELSE c

Min(S) == CHOOSE x \in S : \A y \in S : x <= y
Max(S) == CHOOSE x \in S : \A y \in S : x >= y

\* s[p:q-1] in 1-based positions
Slice(s, p, q) == SubSeq(s, p, q - 1)

\* str.strip()
Strip(s) ==
    LET keep == {k \in 1..Len(s) : s[k] \notin WhiteSpace}
    IN  IF keep = {} THEN <<>> ELSE SubSeq(s, Min(keep), Max(keep))

\* the literal lit occurs in s at position p
LitAt(s, p, lit) ==
    /\ p >= 1
    /\ p + Len(lit) - 1 <= Len(s)
    /\ \A k \in 1..Len(lit) : s[p + k - 1] = lit[k]

\* the same under re.IGNORECASE
LitAtCI(s, p, lit) ==
    /\ p >= 1
    /\ p + Len(lit) - 1 <= Len(s)
    /\ \A k \in 1..Len(lit) : Lower(s[p + k - 1]) = Lower(lit[k])

\* lit in s
In(lit, s) == \E p \in 1..(Len(s) - Len(lit) + 1) : LitAt(s, p, lit)

\* s.startswith(lit)
StartsWith(s, lit) == LitAt(s, 1, lit)

\* end of the longest run of characters of class C starting at p (a greedy C*)
SpanEnd(s, p, C) ==
    LET stops == {q \in p..Len(s) : s[q] \notin C}
    IN  IF stops = {} THEN (IF p > Len(s) THEN p ELSE Len(s) + 1) ELSE Min(stops)

\* end of the longest run of characters other than newline starting at p
LineEnd(s, p) ==
    LET stops == {q \in p..Len(s) : s[q] = "\n"}
    IN  IF stops = {} THEN (IF p > Len(s) THEN p ELSE Len(s) + 1) ELSE Min(stops)

RECURSIVE splitlines(_)
splitlines(t) ==
    IF t = <<>> THEN <<>>
    ELSE LET nl == {k \in 1..Len(t) : t[k] = "\n"}
         IN  IF nl = {} THEN <<t>>
             ELSE <<SubSeq(t, 1, Min(nl) - 1)>>
                      \o splitlines(SubSeq(t, Min(nl) + 1, Len(t)))

\* "\n".join(ls)
RECURSIVE JoinNL(_)
JoinNL(ls) ==
    IF ls = <<>> THEN <<>>
    ELSE IF Len(ls) = 1 THEN ls[1]
    ELSE ls[1] \o <<"\n">> \o JoinNL(Tail(ls))

RECURSIVE Concat(_)
Concat(ss) == IF ss = <<>> THEN <<>> ELSE Head(ss) \o Concat(Tail(ss))

---------------------------------------------------------------------------
(* parse_stimulation_data: the two positional grammars and the date         *)

DateStimulated == <<"D", "a", "t", "e", " ", "S", "t", "i", "m", "u", "l", "a", "t", "e", "d">>
TypeTreatment == <<"T", "y", "p", "e", " ", "T", "r", "e", "a", "t", "m", "e", "n", "t">>
Details == <<"D", "e", "t", "a", "i", "l", "s">>

NoGroups == [ok |-> FALSE, g1 |-> <<>>, g2 |-> <<>>, g3 |-> <<>>, g4 |-> <<>>,
             g5 |-> <<>>, g6 |-> <<>>, g7 |-> <<>>]

\* \s+(\d+)\s+(\d+)\s+(\d+)\s+I\s+(\d+)\s+(\w+) matched at position e of s.
\* Every quantifier here is greedy over a class disjoint from what follows it,
\* so each run is taken whole or the match fails.
DateTail(s, e) ==
    LET a3 == SpanEnd(s, e, WhiteSpace)
        b3 == SpanEnd(s, a3, Digits)
        a4 == SpanEnd(s, b3, WhiteSpace)
        b4 == SpanEnd(s, a4, Digits)
        a5 == SpanEnd(s, b4, WhiteSpace)
        b5 == SpanEnd(s, a5, Digits)
        aI == SpanEnd(s, b5, WhiteSpace)
        a6 == SpanEnd(s, aI + 1, WhiteSpace)
        b6 == SpanEnd(s, a6, Digits)
        a7 == SpanEnd(s, b6, WhiteSpace)
        b7 == SpanEnd(s, a7, WordChars)
    IN  IF /\ e <= Len(s) /\ a3 > e /\ b3 > a3 /\ a4 > b3 /\ b4 > a4
           /\ a5 > b4 /\ b5 > a5 /\ aI > b5 /\ LitAt(s, aI, <<"I">>)
           /\ a6 > aI + 1 /\ b6 > a6 /\ a7 > b6 /\ b7 > a7
        THEN [NoGroups EXCEPT !.ok = TRUE,
                              !.g3 = Slice(s, a3, b3), !.g4 = Slice(s, a4, b4),
                              !.g5 = Slice(s, a5, b5), !.g6 = Slice(s, a6, b6),
                              !.g7 = Slice(s, a7, b7)]
        ELSE NoGroups

\* (\d{2}/\d{2}/\d{4}) at the start of s
DateHead(s) ==
    /\ Len(s) >= 10
    /\ \A k \in {1, 2, 4, 5, 7, 8, 9, 10} : s[k] \in Digits
    /\ s[3] = "/" /\ s[6] = "/"

\* re.match(r"(\d{2}/\d{2}/\d{4})\s+(.*?)\s+(\d+)\s+(\d+)\s+(\d+)\s+I\s+(\d+)\s+(\w+)", s):
\* the first \s+ is greedy and gives characters back only when nothing matches
\* after it (a from its longest end down), the phrase (.*?) is lazy (e from a up)
\* and never holds a newline.
DateBlockMatch(s) ==
    IF ~DateHead(s) THEN NoGroups
    ELSE LET s0 == SpanEnd(s, 11, WhiteSpace)
             E  == {e \in 12..Len(s) : s[e] \in WhiteSpace /\ DateTail(s, e).ok}
             A  == {a \in 12..s0 : \E e \in E : e >= a /\ LineEnd(s, a) >= e}
         IN  IF A = {} THEN NoGroups
             ELSE LET a == Max(A)
                      e == Min({x \in E : x >= a})
                  IN  [DateTail(s, e) EXCEPT !.g1 = Slice(s, 1, 11),
                                             !.g2 = Slice(s, a, e)]

\* \s+(\d+)\s+(\d+)\s+([\d.]+) matched at position e of s
TreatmentTail(s, e) ==
    LET a2 == SpanEnd(s, e, WhiteSpace)
        b2 == SpanEnd(s, a2, Digits)
        a3 == SpanEnd(s, b2, WhiteSpace)
        b3 == SpanEnd(s, a3, Digits)
        a4 == SpanEnd(s, b3, WhiteSpace)
        b4 == SpanEnd(s, a4, DigitDot)
    IN  IF /\ e <= Len(s) /\ a2 > e /\ b2 > a2 /\ a3 > b2 /\ b3 > a3
           /\ a4 > b3 /\ b4 > a4
        THEN [NoGroups EXCEPT !.ok = TRUE,
                              !.g2 = Slice(s, a2, b2), !.g3 = Slice(s, a3, b3),
                              !.g4 = Slice(s, a4, b4)]
        ELSE NoGroups

\* re.match(r"(.+?)\s+(\d+)\s+(\d+)\s+([\d.]+)", s): the phrase is lazy, at
\* least one character, and never holds a newline.
TreatmentMatch(s) ==
    LET E == {e \in 2..Len(s) :
                 s[e] \in WhiteSpace /\ LineEnd(s, 1) >= e /\ TreatmentTail(s, e).ok}
    IN  IF E = {} THEN NoGroups
        ELSE [TreatmentTail(s, Min(E)) EXCEPT !.g1 = Slice(s, 1, Min(E))]

\* the value of a run of decimal digits
RECURSIVE IntOf(_)
IntOf(ds) == IF ds = <<>> THEN 0 ELSE 10 * IntOf(SubSeq(ds, 1, Len(ds) - 1)) + DigitVal(ds[Len(ds)])

\* str(k) for k >= 0
RECURSIVE StrOf(_)
StrOf(k) == IF k < 10 THEN <<DigitSeq[k + 1]>> ELSE StrOf(k \div 10) \o <<DigitSeq[(k % 10) + 1]>>

\* zero-padding to width w
RECURSIVE ZeroPad(_, _)
ZeroPad(ds, w) == IF Len(ds) >= w THEN ds ELSE ZeroPad(<<"0">> \o ds, w)

IsLeap(y) == y % 4 = 0 /\ (y % 100 # 0 \/ y % 400 = 0)
DaysInMonth(y, m) ==
    IF m = 2 THEN (IF IsLeap(y) THEN 29 ELSE 28)
    ELSE IF m \in {4, 6, 9, 11} THEN 30 ELSE 31

\* datetime.strptime(raw, "%m/%d/%Y") on a token of the shape dd/dd/dddd:
\* ok is FALSE where it raises ValueError (month, day or year out of range)
strptime(raw) ==
    LET m == IntOf(Slice(raw, 1, 3))
        d == IntOf(Slice(raw, 4, 6))
        y == IntOf(Slice(raw, 7, 11))
    IN  [ok |-> m \in 1..12 /\ y >= 1 /\ d >= 1 /\ d <= DaysInMonth(y, m),
         year |-> y, month |-> m, day |-> d]

\* date_obj.strftime("%Y-%m-%d"); pads says whether the platform's %Y
\* zero-pads a year below 1000 to four digits (glibc does not)
strftime(t, pads) ==
    (IF pads THEN ZeroPad(StrOf(t.year), 4) ELSE StrOf(t.year))
        \o <<"-">> \o ZeroPad(StrOf(t.month), 2) \o <<"-">> \o ZeroPad(StrOf(t.day), 2)

---------------------------------------------------------------------------
(* parse_stimulation_data: the scan                                         *)

EmptyData ==
    [date_stimulated |-> None, stimulated_formation |-> None, type_treatment |-> None,
     top_depth |-> None, bottom_depth |-> None, stimulation_stages |-> None,
     volume |-> None, volume_units |-> None, acid_percent |-> None,
     lbs_proppant |-> None, max_treatment_pressure |-> None,
     max_treatment_rate |-> None, proppant_details |-> None]

\* the try/except around the date: strptime's ValueError is caught and the
\* field set to None; exc says whether an exception leaves the block
NormalizeDate(raw, pads) ==
    LET t == strptime(Strip(raw))
    IN  [value |-> IF t.ok THEN Some(strftime(t, pads)) ELSE None, exc |-> FALSE]

\* a variant that sets the formation before the date is converted and leaves
\* the rest of the block unset when the conversion fails
SetDateBlock_FormationFirst(d, m, pads) ==
    LET nd == NormalizeDate(m.g1, pads)
    IN  IF nd.value = None
        THEN [data |-> [d EXCEPT !.date_stimulated = None,
                                 !.stimulated_formation = Some(Strip(m.g2))],
              exc |-> FALSE]
        ELSE [data |-> [d EXCEPT !.date_stimulated = nd.value,
                                 !.stimulated_formation = Some(Strip(m.g2)),
                                 !.top_depth = Some(Strip(m.g3)),
                                 !.bottom_depth = Some(Strip(m.g4)),
                                 !.stimulation_stages = Some(Strip(m.g5)),
                                 !.volume = Some(Strip(m.g6)),
                                 !.volume_units = Some(Strip(m.g7))],
              exc |-> FALSE]

\* the assignments made when the date-block grammar matched with groups m
SetDateBlock(d, m, pads) ==
    LET nd == NormalizeDate(m.g1, pads)
    IN  IF nd.exc THEN [data |-> d, exc |-> TRUE]
        ELSE [data |-> [d EXCEPT !.date_stimulated = nd.value,
                                 !.stimulated_formation = Some(Strip(m.g2)),
                                 !.top_depth = Some(Strip(m.g3)),
                                 !.bottom_depth = Some(Strip(m.g4)),
                                 !.stimulation_stages = Some(Strip(m.g5)),
                                 !.volume = Some(Strip(m.g6)),
                                 !.volume_units = Some(Strip(m.g7))],
              exc |-> FALSE]

\* if m: ... for the match m of the date-block grammar
OnDateMatch(d, m, pads) ==
    IF m.ok THEN SetDateBlock(d, m, pads) ELSE [data |-> d, exc |-> FALSE]

\* if "Date Stimulated" in line_stripped: ... (k is the 1-based line number)
DateBlock(d, ls, k, pads) ==
    IF In(DateStimulated, Strip(ls[k])) /\ k + 1 <= Len(ls)
    THEN OnDateMatch(d, DateBlockMatch(Strip(ls[k + 1])), pads)
    ELSE [data |-> d, exc |-> FALSE]

\* if m: ... for the match m of the treatment grammar
OnTreatmentMatch(d, m) ==
    IF m.ok
    THEN [d EXCEPT !.type_treatment = Some(Strip(m.g1)),
                   !.lbs_proppant = Some(Strip(m.g2)),
                   !.max_treatment_pressure = Some(Strip(m.g3)),
                   !.max_treatment_rate = Some(Strip(m.g4))]
    ELSE d

\* if "Type Treatment" in line_stripped: ...
TreatmentBlock(d, ls, k) ==
    IF In(TypeTreatment, Strip(ls[k])) /\ k + 1 <= Len(ls)
    THEN OnTreatmentMatch(d, TreatmentMatch(Strip(ls[k + 1])))
    ELSE d

\* a variant that stops at a line containing a marker anywhere
StopsDetails_Contains(l) ==
    l = <<>> \/ In(DateStimulated, l) \/ In(TypeTreatment, l)

\* the condition that ends the collection of detail lines
StopsDetails(l) ==
    l = <<>> \/ StartsWith(l, DateStimulated) \/ StartsWith(l, TypeTreatment)

\* for j in range(i+1, len(lines)): ... details_lines.append(l), from line j on
RECURSIVE CollectDetails(_, _)
CollectDetails(ls, j) ==
    IF j > Len(ls) THEN <<>>
    ELSE IF StopsDetails(Strip(ls[j])) THEN <<>>
    ELSE <<Strip(ls[j])>> \o CollectDetails(ls, j + 1)

\* a variant that breaks only when detail lines were collected
DetailsBlock_BreakWhenCollected(d, ls, k) ==
    IF In(Details, Strip(ls[k]))
    THEN LET details_lines == CollectDetails(ls, k + 1)
         IN  [data |-> IF details_lines # <<>>
                       THEN [d EXCEPT !.proppant_details = Some(JoinNL(details_lines))]
                       ELSE d,
              brk |-> details_lines # <<>>]
    ELSE [data |-> d, brk |-> FALSE]

\* if details_lines: data["proppant_details"] = "\n".join(details_lines)
SetDetails(d, details_lines) ==
    IF details_lines # <<>>
    THEN [d EXCEPT !.proppant_details = Some(JoinNL(details_lines))]
    ELSE d

\* if "Details" in line_stripped: ... break
DetailsBlock(d, ls, k) ==
    IF In(Details, Strip(ls[k]))
    THEN [data |-> SetDetails(d, CollectDetails(ls, k + 1)), brk |-> TRUE]
    ELSE [data |-> d, brk |-> FALSE]

\* a variant in which the date block is no longer read once a treatment block
\* has been captured
IterBody_NoDateAfterTreatment(d, ls, k, pads) ==
    LET r1 == IF IsSet(d.type_treatment) THEN [data |-> d, exc |-> FALSE]
              ELSE DateBlock(d, ls, k, pads)
        r3 == DetailsBlock(TreatmentBlock(r1.data, ls, k), ls, k)
    IN  IF r1.exc THEN [data |-> d, brk |-> FALSE, exc |-> TRUE]
        ELSE [data |-> r3.data, brk |-> r3.brk, exc |-> FALSE]

\* the iteration ends without an exception, with the record and the break of
\* the Details block
Completed(r3) == [data |-> r3.data, brk |-> r3.brk, exc |-> FALSE]

\* the rest of the iteration after the date block gave r1: an exception
\* leaves the loop, otherwise the two other blocks run on the record
AfterDateBlock(d, r1, ls, k) ==
    IF r1.exc THEN [data |-> d, brk |-> FALSE, exc |-> TRUE]
    ELSE Completed(DetailsBlock(TreatmentBlock(r1.data, ls, k), ls, k))

\* one iteration of the for loop over the lines, on line k
IterBody(d, ls, k, pads) == AfterDateBlock(d, DateBlock(d, ls, k, pads), ls, k)

\* the loop from line k on, as a function
RECURSIVE ScanFrom(_, _, _, _)

\* after an iteration with result r on line k: the loop is left on a break (or
\* an exception), otherwise it goes on with line k + 1
ScanAfter(r, ls, k, pads) ==
    IF r.brk \/ r.exc THEN r.data ELSE ScanFrom(r.data, ls, k + 1, pads)

ScanFrom(d, ls, k, pads) ==
    IF k > Len(ls) THEN d ELSE ScanAfter(IterBody(d, ls, k, pads), ls, k, pads)

parse_stimulation_data(t, pads) == ScanFrom(EmptyData, splitlines(t), 1, pads)

---------------------------------------------------------------------------
(* parse_well_info                                                          *)

WellInformation == <<"W", "e", "l", "l", " ", "I", "n", "f", "o", "r", "m", "a", "t", "i", "o", "n">>
WellDataSummary == <<"W", "E", "L", "L", " ", "D", "A", "T", "A", " ", "S", "U", "M", "M", "A", "R", "Y">>

\* a variant that cuts at the last header instead of the first
IsolateSection_LastHeader(t) ==
    LET P == {p \in 1..Len(t) :
                 LitAtCI(t, p, WellInformation) \/ LitAtCI(t, p, WellDataSummary)}
    IN  IF P = {} THEN t
        ELSE LET p == Max(P)
                 q == IF LitAtCI(t, p, WellInformation)
                      THEN p + Len(WellInformation) ELSE p + Len(WellDataSummary)
             IN  Slice(t, q, Len(t) + 1)

\* re.search(r"(?:Well Information|WELL DATA SUMMARY)(.*)", text, DOTALL | IGNORECASE):
\* group(1) of the leftmost match, or the text when there is none
IsolateSection(t) ==
    LET P == {p \in 1..Len(t) :
                 LitAtCI(t, p, WellInformation) \/ LitAtCI(t, p, WellDataSummary)}
    IN  IF P = {} THEN t
        ELSE LET p == Min(P)
                 q == IF LitAtCI(t, p, WellInformation)
                      THEN p + Len(WellInformation) ELSE p + Len(WellDataSummary)
             IN  Slice(t, q, Len(t) + 1)

\* the label of each field's pattern: literals with \s* between them
LabelOf ==
    [operator          |-> <<<<"O", "p", "e", "r", "a", "t", "o", "r", ":">>>>,
     api_number        |-> <<<<"A", "P", "I">>, <<"#", ":">>>>,
     well_name         |-> <<<<"W", "e", "l", "l", " ", "N", "a", "m", "e", ":">>>>,
     enseco_job_number |-> <<<<"E", "n", "s", "e", "c", "o">>, <<"J", "o", "b">>, <<"#", ":">>>>,
     job_type          |-> <<<<"W", "e", "l", "l">>, <<"T", "y", "p", "e", ":">>>>,
     county_state      |-> <<<<"C", "o", "u", "n", "t", "y", ",">>, <<"S", "t", "a", "t", "e", ":">>>>,
     well_shl          |-> <<<<"S", "u", "r", "f", "a", "c", "e", " ", "L", "o", "c", "a", "t", "i", "o", "n", ":">>>>,
     latitude          |-> <<<<"L", "a", "t", "i", "t", "u", "d", "e", ":">>>>,
     longitude         |-> <<<<"L", "o", "n", "g", "i", "t", "u", "d", "e", ":">>>>,
     datum             |-> <<<<"D", "a", "t", "u", "m", ":">>>>]

\* the order of the match_and_set calls
FieldOrder == <<"operator", "api_number", "well_name", "enseco_job_number", "job_type",
                "county_state", "well_shl", "latitude", "longitude", "datum">>

EmptyWell == [f \in DOMAIN LabelOf |-> None]

\* the position after the label matched at p (case-insensitive), 0 when the
\* label does not match there; each \s* takes its whole run, as the literal
\* after it begins with a character that is not white space
RECURSIVE LabelEnd(_, _, _)
LabelEnd(s, p, parts) ==
    IF ~LitAtCI(s, p, Head(parts)) THEN 0
    ELSE IF Len(parts) = 1 THEN p + Len(Head(parts))
    ELSE LabelEnd(s, SpanEnd(s, p + Len(Head(parts)), WhiteSpace), Tail(parts))

NoMatch == [ok |-> FALSE, start |-> 0, from |-> 0, to |-> 0]

\* a variant of the group ([^\n]+) that runs to the end of the text
GroupEnd_EndOfText(s, a) == Len(s) + 1

\* the end of the group ([^\n]+) that starts at a
GroupEnd(s, a) == LineEnd(s, a)

\* label \s* ([^\n]+) matched at p: \s* is greedy and gives characters back
\* (a from its longest end down) until a character other than newline follows
RestOfLineAt(s, p, parts) ==
    LET q == LabelEnd(s, p, parts)
        w == SpanEnd(s, q, WhiteSpace)
        A == {a \in q..w : a <= Len(s) /\ s[a] # "\n"}
    IN  IF q = 0 \/ A = {} THEN NoMatch
        ELSE [ok |-> TRUE, start |-> p, from |-> Max(A), to |-> GroupEnd(s, Max(A))]

\* API\s*#:\s*([0-9\-]+) matched at p
ApiAt(s, p, parts) ==
    LET q == LabelEnd(s, p, parts)
        w == SpanEnd(s, q, WhiteSpace)
        z == SpanEnd(s, w, DigitDash)
    IN  IF q = 0 \/ z = w THEN NoMatch
        ELSE [ok |-> TRUE, start |-> p, from |-> w, to |-> z]

\* Operator:\s*(.+?)\s+API matched at p: \s* greedy (a from its longest end
\* down), the phrase lazy, at least one character and without newline (e from
\* a + 1 up), \s+ its whole run, then API
OperatorAt(s, p, parts) ==
    LET q == LabelEnd(s, p, parts)
        w == SpanEnd(s, q, WhiteSpace)
        E == {e \in (q + 1)..Len(s) :
                 s[e] \in WhiteSpace /\ LitAtCI(s, SpanEnd(s, e, WhiteSpace), <<"A", "P", "I">>)}
        A == {a \in q..w : \E e \in E : e >= a + 1 /\ LineEnd(s, a) >= e}
    IN  IF q = 0 \/ A = {} THEN NoMatch
        ELSE [ok |-> TRUE, start |-> p, from |-> Max(A),
              to |-> Min({e \in E : e >= Max(A) + 1 /\ LineEnd(s, Max(A)) >= e})]

PatternAt(s, p, key) ==
    IF key = "operator" THEN OperatorAt(s, p, LabelOf[key])
    ELSE IF key = "api_number" THEN ApiAt(s, p, LabelOf[key])
    ELSE RestOfLineAt(s, p, LabelOf[key])

\* re.search(pattern, section_text, re.IGNORECASE): the leftmost match
Search(s, key) ==
    LET P == {p \in 1..Len(s) : PatternAt(s, p, key).ok}
    IN  IF P = {} THEN NoMatch ELSE PatternAt(s, Min(P), key)

\* match_and_set(pattern, key)
MatchAndSet(wd, s, key) ==
    LET m == Search(s, key)
    IN  IF m.ok THEN [wd EXCEPT ![key] = Some(Strip(Slice(s, m.from, m.to)))] ELSE wd

\* the ten match_and_set calls, from call k on
RECURSIVE MatchAll(_, _, _)
MatchAll(wd, s, k) ==
    IF k > Len(FieldOrder) THEN wd
    ELSE MatchAll(MatchAndSet(wd, s, FieldOrder[k]), s, k + 1)

parse_well_info(t) == MatchAll(EmptyWell, IsolateSection(t), 1)

---------------------------------------------------------------------------
(* Inputs                                                                   *)

MaxLines == 4

\* lines of a stimulation block: the markers, a date-block line with a valid
\* date, one with an invalid date (month 13, day 40) and a two-word formation,
\* one with a valid date of a year below 1000, a treatment line, a blank line
L_DateMarker == <<"D", "a", "t", "e", " ", "S", "t", "i", "m", "u", "l", "a", "t", "e", "d">>
L_Date2015 == <<"0", "6", "/", "0", "9", "/", "2", "0", "1", "5", " ", "T", "F", " ", "1", " ", "2", " ", "3", " ", "I", " ", "4", " ", "B">>
L_DateBad == <<"1", "3", "/", "4", "0", "/", "2", "0", "1", "5", " ", "A", " ", "B", " ", "5", " ", "6", " ", "7", " ", "I", " ", "8", " ", "G">>
L_Date0999 == <<"0", "1", "/", "0", "1", "/", "0", "9", "9", "9", " ", "C", " ", "1", " ", "2", " ", "3", " ", "I", " ", "4", " ", "B">>
L_TypeMarker == <<"T", "y", "p", "e", " ", "T", "r", "e", "a", "t", "m", "e", "n", "t">>
L_Treatment == <<" ", "S", "a", "n", "d", " ", "F", "r", "a", "c", " ", "9", " ", "8", " ", "7", ".", "5">>
L_Details == <<"D", "e", "t", "a", "i", "l", "s">>
L_Blank == <<" ">>

L_TypeInside == <<"L", "b", "s", " ", "T", "y", "p", "e", " ", "T", "r", "e", "a", "t", "m", "e", "n", "t">>
L_Proppant == <<" ", "4", "0", "/", "7", "0", " ", "W", "h", "i", "t", "e", " ">>

ScanLines == {L_DateMarker, L_Date2015, L_DateBad, L_Date0999, L_TypeMarker,
              L_Treatment, L_Details}

\* lines of a details block: a line that holds "Type Treatment" without beginning
\* with it, a detail line with blanks around it, a blank line
DetailLines == {L_DateMarker, L_Date2015, L_TypeMarker, L_TypeInside, L_Details,
                L_Blank, L_Proppant}

MaxSections == 3

\* lines of a well section: the two headers (in other letter cases, one inside
\* a line), operator and API number on one line, fields on lines of their own,
\* two fields sharing a line
W_Information == <<"W", "e", "l", "l", " ", "i", "n", "f", "o", "r", "m", "a", "t", "i", "o", "n">>
W_Summary == <<"a", " ", "w", "e", "l", "l", " ", "D", "A", "T", "A", " ", "s", "u", "m", "m", "a", "r", "y", " ", "b">>
W_OperatorApi == <<"O", "p", "e", "r", "a", "t", "o", "r", ":", " ", "A", "c", " ", "A", "P", "I", " ", "#", ":", " ", "3", "-", "5">>
W_Name == <<"W", "e", "l", "l", " ", "N", "a", "m", "e", ":", " ", "F">>
W_Datum == <<"d", "a", "t", "u", "m", ":", " ", "N">>
W_NameDatum == <<"W", "e", "l", "l", " ", "N", "a", "m", "e", ":", " ", "G", " ", "d", "a", "t", "u", "m", ":", " ", "M">>

WellLines == {W_Information, W_Summary, W_OperatorApi, W_Name, W_Datum, W_NameDatum}

\* the label-and-value texts of the lines above, each with its field
FieldSegments ==
    {[field |-> "operator", seg |-> <<"O", "p", "e", "r", "a", "t", "o", "r", ":", " ", "A", "c">>],
     [field |-> "api_number", seg |-> <<"A", "P", "I", " ", "#", ":", " ", "3", "-", "5">>],
     [field |-> "well_name", seg |-> <<"W", "e", "l", "l", " ", "N", "a", "m", "e", ":", " ", "F">>],
     [field |-> "well_name", seg |-> <<"W", "e", "l", "l", " ", "N", "a", "m", "e", ":", " ", "G">>],
     [field |-> "datum", seg |-> <<"d", "a", "t", "u", "m", ":", " ", "N">>],
     [field |-> "datum", seg |-> <<"d", "a", "t", "u", "m", ":", " ", "M">>]}

\* the texts of at most m lines drawn from S, each ended by a newline
TextsOf(S, m) ==
    {Concat([k \in 1..Len(doc) |-> doc[k] \o <<"\n">>]) :
        doc \in UNION {[1..len -> S] : len \in 0..m}}

---------------------------------------------------------------------------
(* parse_stimulation_data as a process: one step per loop iteration         *)

ScanIdle == lines = <<>> /\ i = 0 /\ data = EmptyData
WellIdle == section_text = <<>> /\ well_data = EmptyWell
MainIdle ==
    /\ folder = <<>> /\ n = 0 /\ well_info_id = 0 /\ stim_data = EmptyData
    /\ well_info_tbl = <<>> /\ stimulation_tbl = <<>> /\ calls = <<>>

InitScan ==
    /\ text \in TextsOf(ScanLines, MaxLines)
    /\ pads_year \in BOOLEAN
    /\ pc = "start"
    /\ ScanIdle /\ WellIdle /\ MainIdle

\* lines = text.splitlines(); data = {...: None}
ScanStart ==
    /\ pc = "start"
    /\ lines' = splitlines(text)
    /\ i' = 0
    /\ data' = EmptyData
    /\ pc' = "loop"
    /\ UNCHANGED <<text, pads_year, wellVars, mainVars>>

\* one iteration of for i, line in enumerate(lines), with its break
ScanIter ==
    /\ pc = "loop"
    /\ i < Len(lines)
    /\ \E r \in {IterBody(data, lines, i + 1, pads_year)} :
           /\ data' = r.data
           /\ pc' = IF r.exc THEN "raised" ELSE IF r.brk THEN "break" ELSE "loop"
    /\ i' = i + 1
    /\ UNCHANGED <<text, pads_year, lines, wellVars, mainVars>>

\* return data, after the break or when the lines are exhausted
ScanReturn ==
    /\ pc = "break" \/ (pc = "loop" /\ i = Len(lines))
    /\ pc' = "returned"
    /\ UNCHANGED <<text, pads_year, scanVars, wellVars, mainVars>>

NextScan == ScanStart \/ ScanIter \/ ScanReturn

SpecScan == InitScan /\ [][NextScan]_vars

InitDetails ==
    /\ text \in TextsOf(DetailLines, MaxLines)
    /\ pads_year \in BOOLEAN
    /\ pc = "start"
    /\ ScanIdle /\ WellIdle /\ MainIdle

SpecDetails == InitDetails /\ [][NextScan]_vars

---------------------------------------------------------------------------
(* parse_well_info as a process                                             *)

InitWell ==
    /\ text \in TextsOf(WellLines, MaxSections)
    /\ pads_year = FALSE
    /\ pc = "start"
    /\ ScanIdle /\ WellIdle /\ MainIdle

\* the section is isolated and well_data initialised to None
WellIsolate ==
    /\ pc = "start"
    /\ section_text' = IsolateSection(text)
    /\ well_data' = EmptyWell
    /\ pc' = "isolated"
    /\ UNCHANGED <<text, pads_year, scanVars, mainVars>>

\* the ten match_and_set calls; return well_data
WellExtract ==
    /\ pc = "isolated"
    /\ well_data' = MatchAll(well_data, section_text, 1)
    /\ pc' = "returned"
    /\ UNCHANGED <<text, pads_year, section_text, scanVars, mainVars>>

NextWell == WellIsolate \/ WellExtract

SpecWell == InitWell /\ [][NextWell]_vars

---------------------------------------------------------------------------
(* main: the loop over the folder, and the two inserts                      *)

MaxFiles == 3

\* documents: a stimulation block with a valid date; one with an invalid date
\* and two blanks where the formation should be; one with an invalid date and
\* a formation; a well section alone; and a file that is not a PDF
D_Stimulated == <<"D", "a", "t", "e", " ", "S", "t", "i", "m", "u", "l", "a", "t", "e", "d", "\n", "0", "6", "/", "0", "9", "/", "2", "0", "1", "5", " ", "T", "F", " ", "1", " ", "2", " ", "3", " ", "I", " ", "4", " ", "B", "\n">>
D_BadDateNoFormation == <<"D", "a", "t", "e", " ", "S", "t", "i", "m", "u", "l", "a", "t", "e", "d", "\n", "1", "3", "/", "4", "0", "/", "2", "0", "1", "5", " ", " ", "5", " ", "6", " ", "7", " ", "I", " ", "8", " ", "G", "\n">>
D_BadDate == <<"D", "a", "t", "e", " ", "S", "t", "i", "m", "u", "l", "a", "t", "e", "d", "\n", "1", "3", "/", "4", "0", "/", "2", "0", "1", "5", " ", "A", " ", "B", " ", "5", " ", "6", " ", "7", " ", "I", " ", "8", " ", "G", "\n">>
D_WellOnly == <<"W", "e", "l", "l", " ", "I", "n", "f", "o", "r", "m", "a", "t", "i", "o", "n", "\n", "W", "e", "l", "l", " ", "N", "a", "m", "e", ":", " ", "F", "\n">>

FolderEntries ==
    {[pdf |-> TRUE, text |-> t] :
        t \in {D_Stimulated, D_BadDateNoFormation, D_BadDate, D_WellOnly}}
        \cup {[pdf |-> FALSE, text |-> D_Stimulated]}

\* rows the well_info table may hold before the run (the tables are created
\* only IF NOT EXISTS)
PriorRows == {<<>>, <<[id |-> 1, doc |-> 0, rec |-> EmptyWell]>>}

\* a variant of cursor.lastrowid that counts from 0
LastRowId_FromZero(tbl) == Len(tbl) - 1

\* cursor.lastrowid after the INSERT: the AUTO_INCREMENT id of the new row
LastRowId(tbl) == Len(tbl)

\* a variant of the test that looks at the date alone
Materializable_DateOnly(sd) == Truthy(sd.date_stimulated)

\* if stim_data["date_stimulated"] or stim_data["stimulated_formation"]
Materializable(sd) == Truthy(sd.date_stimulated) \/ Truthy(sd.stimulated_formation)

InitMain ==
    /\ folder \in UNION {[1..len -> FolderEntries] : len \in 0..MaxFiles}
    /\ well_info_tbl \in PriorRows
    /\ stimulation_tbl = <<>>
    /\ pads_year \in BOOLEAN
    /\ n = 0 /\ well_info_id = 0 /\ stim_data = EmptyData /\ calls = <<>>
    /\ text = <<>>
    /\ pc = "next_file"
    /\ ScanIdle /\ WellIdle

\* a folder entry whose name does not end in .pdf is passed over
MainSkipFile ==
    /\ pc = "next_file"
    /\ n < Len(folder)
    /\ ~folder[n + 1].pdf
    /\ n' = n + 1
    /\ UNCHANGED <<text, pads_year, pc, scanVars, wellVars, folder, well_info_id,
                   stim_data, well_info_tbl, stimulation_tbl, calls>>

\* text_content = extract_text_from_pdf(pdf_path)
MainExtractText ==
    /\ pc = "next_file"
    /\ n < Len(folder)
    /\ folder[n + 1].pdf
    /\ text' = folder[n + 1].text
    /\ pc' = "parse_well"
    /\ UNCHANGED <<pads_year, scanVars, wellVars, mainVars>>

\* well_info = parse_well_info(text_content)
MainParseWell ==
    /\ pc = "parse_well"
    /\ section_text' = IsolateSection(text)
    /\ well_data' = parse_well_info(text)
    /\ pc' = "insert_well"
    /\ UNCHANGED <<text, pads_year, scanVars, mainVars>>

\* well_info_id = insert_well_info(well_info, ...): the row is stored and its
\* id returned (doc, the number of the folder entry, is kept for the properties)
MainInsertWell ==
    /\ pc = "insert_well"
    /\ LET id == Len(well_info_tbl) + 1
           tbl == Append(well_info_tbl, [id |-> id, doc |-> n + 1, rec |-> well_data])
       IN  /\ well_info_tbl' = tbl
           /\ well_info_id' = LastRowId(tbl)
           /\ calls' = Append(calls, [fn |-> "insert_well_info", doc |-> n + 1,
                                      id |-> LastRowId(tbl)])
    /\ pc' = "parse_stim"
    /\ UNCHANGED <<text, pads_year, scanVars, wellVars, folder, n, stim_data,
                   stimulation_tbl>>

\* stim_data = parse_stimulation_data(text_content)
MainParseStim ==
    /\ pc = "parse_stim"
    /\ stim_data' = parse_stimulation_data(text, pads_year)
    /\ pc' = "decide"
    /\ UNCHANGED <<text, pads_year, scanVars, wellVars, folder, n, well_info_id,
                   well_info_tbl, stimulation_tbl, calls>>

\* the test holds: insert_stimulation_data(stim_data, well_info_id, ...)
MainInsertStim ==
    /\ pc = "decide"
    /\ Materializable(stim_data)
    /\ stimulation_tbl' = Append(stimulation_tbl,
                                 [id |-> Len(stimulation_tbl) + 1,
                                  well_info_id |-> well_info_id,
                                  doc |-> n + 1, rec |-> stim_data])
    /\ calls' = Append(calls, [fn |-> "insert_stimulation_data", doc |-> n + 1,
                               id |-> well_info_id])
    /\ n' = n + 1
    /\ pc' = "next_file"
    /\ UNCHANGED <<text, pads_year, scanVars, wellVars, folder, well_info_id,
                   stim_data, well_info_tbl>>

\* the test fails: nothing more is done for this file
MainNoStim ==
    /\ pc = "decide"
    /\ ~Materializable(stim_data)
    /\ n' = n + 1
    /\ pc' = "next_file"
    /\ UNCHANGED <<text, pads_year, scanVars, wellVars, folder, well_info_id,
                   stim_data, well_info_tbl, stimulation_tbl, calls>>

\* an insert raises (the connection fails): main ends with the exception,
\* nothing is stored by that call
MainDbError ==
    /\ pc = "insert_well" \/ (pc = "decide" /\ Materializable(stim_data))
    /\ pc' = "failed"
    /\ UNCHANGED <<text, pads_year, scanVars, wellVars, mainVars>>

\* the folder is exhausted
MainDone ==
    /\ pc = "next_file"
    /\ n = Len(folder)
    /\ pc' = "done"
    /\ UNCHANGED <<text, pads_year, scanVars, wellVars, mainVars>>

Next ==
    \/ MainSkipFile \/ MainExtractText \/ MainParseWell \/ MainInsertWell
    \/ MainParseStim \/ MainInsertStim \/ MainNoStim \/ MainDbError \/ MainDone

Init == InitMain

Spec == Init /\ [][Next]_vars

---------------------------------------------------------------------------
(* Properties of the scan                                                   *)

\* the lines k that hold "Date Stimulated" and are followed by a line that
\* matches the date-block grammar
MarkerHits ==
    {k \in 1..(Len(lines) - 1) :
        In(DateStimulated, lines[k]) /\ DateBlockMatch(Strip(lines[k + 1])).ok}

DetailsAt(k) == In(Details, lines[k])

SixFields == {"stimulated_formation", "top_depth", "bottom_depth",
              "stimulation_stages", "volume", "volume_units"}

\* the six fields as the date-block line l gives them
SixFrom(d, l) ==
    LET m == DateBlockMatch(Strip(l))
    IN  /\ d.stimulated_formation = Some(Strip(m.g2))
        /\ d.top_depth = Some(m.g3)
        /\ d.bottom_depth = Some(m.g4)
        /\ d.stimulation_stages = Some(m.g5)
        /\ d.volume = Some(m.g6)
        /\ d.volume_units = Some(m.g7)

\* MM/DD/YYYY rearranged to YYYY-MM-DD
IsoForm(tok) ==
    SubSeq(tok, 7, 10) \o <<"-">> \o SubSeq(tok, 1, 2) \o <<"-">> \o SubSeq(tok, 4, 5)

\* a line that ends a run of detail lines: blank, or beginning with a marker
EndsRun(l) ==
    LET t == Strip(l)
    IN  \/ t = <<>>
        \/ Len(t) >= Len(DateStimulated) /\ SubSeq(t, 1, Len(DateStimulated)) = DateStimulated
        \/ Len(t) >= Len(TypeTreatment) /\ SubSeq(t, 1, Len(TypeTreatment)) = TypeTreatment

\* C3: once a line containing "Details" has been processed, no further
\* iteration runs and the record never changes again: what is returned is the
\* record as it stood when that line finished processing.
C3_ScanStopsAtDetails ==
    [][(\E k \in 1..i : DetailsAt(k)) => (i' = i /\ data' = data)]_vars

\* C3 witness: the scan returned at a "Details" line that is followed by a
\* "Date Stimulated" marker and a matching date-block line, which were not read.
C3_Witness ==
    /\ pc = "returned"
    /\ i < Len(lines)
    /\ DetailsAt(i)
    /\ \E k \in MarkerHits : k > i
    /\ ~IsSet(data.stimulated_formation)

\* C4 as claimed: a "Date Stimulated" marker followed by a matching line sets
\* the formation, depth, stage and volume fields wherever the "Details" and
\* "Type Treatment" lines are.
C4_Original ==
    (pc = "returned" /\ MarkerHits # {})
        => \A f \in SixFields \ {"volume_units"} : IsSet(data[f])

\* C4 amended: the same, provided no line containing "Details" comes before the
\* marker line (the scan ends at the first such line).
C4_MarkersIndependentBeforeDetails ==
    (pc = "returned" /\ \E k \in MarkerHits : \A j \in 1..(k - 1) : ~DetailsAt(j))
        => \A f \in SixFields \ {"volume_units"} : IsSet(data[f])

\* C4 witness: a document without "Type Treatment" whose marker and date line
\* come before a "Details" line, returned with the fields set.
C4_Witness ==
    /\ pc = "returned"
    /\ \A k \in 1..Len(lines) : ~In(TypeTreatment, lines[k])
    /\ \E k \in MarkerHits : /\ \A j \in 1..k : ~DetailsAt(j)
                             /\ \E j \in (k + 1)..Len(lines) : DetailsAt(j)
    /\ \A f \in SixFields : IsSet(data[f])

\* C5 as claimed: in a document without "Details" in which several
\* "Date Stimulated" markers are each followed by a matching line, the returned
\* record holds the values of the first of them.
C5_FirstEpisodeKept ==
    (/\ pc = "returned"
     /\ Cardinality(MarkerHits) >= 2
     /\ \A k \in 1..Len(lines) : ~DetailsAt(k))
        => SixFrom(data, lines[Min(MarkerHits) + 1])

\* C6: in every state of the scan the six fields of the date block are all set
\* or all unset, date_stimulated is set only when they are, and while no
\* processed marker had a matching next line none of them is set.
C6_NoPartialCapture ==
    /\ \/ \A f \in SixFields : IsSet(data[f])
       \/ \A f \in SixFields : ~IsSet(data[f])
    /\ IsSet(data.date_stimulated) => \A f \in SixFields : IsSet(data[f])
    /\ (\A k \in 1..i : k \notin MarkerHits)
           => (~IsSet(data.date_stimulated) /\ \A f \in SixFields : ~IsSet(data[f]))

\* C6 witness: a marker whose next line does not match, and a marker on the
\* last line, were processed and nothing is set.
C6_Witness ==
    /\ pc = "returned"
    /\ i = Len(lines)
    /\ Len(lines) >= 2
    /\ In(DateStimulated, lines[Len(lines)])
    /\ \E k \in 1..(Len(lines) - 1) : In(DateStimulated, lines[k]) /\ k \notin MarkerHits
    /\ \A f \in SixFields : ~IsSet(data[f])

\* C7 as claimed: right after a marker line whose next line matches the
\* grammar, no error has escaped, the scan goes on (unless the marker line also
\* holds "Details"), the six fields are those of the line, and date_stimulated
\* is the YYYY-MM-DD form of a valid date and unset for an invalid one.
C7_DateFailSoft ==
    (pc # "start" /\ i \in MarkerHits)
        => LET tok == DateBlockMatch(Strip(lines[i + 1])).g1
           IN  /\ pc # "raised"
               /\ pc = "loop" \/ DetailsAt(i)
               /\ SixFrom(data, lines[i + 1])
               /\ strptime(tok).ok => data.date_stimulated = Some(IsoForm(tok))
               /\ ~strptime(tok).ok => data.date_stimulated = None

\* The part of C7 that holds: the same for dates of the years 1000 to 9999, or
\* on a platform whose strftime zero-pads the year.
DateFailSoftFromYear1000 ==
    (pc # "start" /\ i \in MarkerHits)
        => LET tok == DateBlockMatch(Strip(lines[i + 1])).g1
           IN  /\ pc # "raised"
               /\ pc = "loop" \/ DetailsAt(i)
               /\ SixFrom(data, lines[i + 1])
               /\ (strptime(tok).ok /\ (pads_year \/ strptime(tok).year >= 1000))
                      => data.date_stimulated = Some(IsoForm(tok))
               /\ ~strptime(tok).ok => data.date_stimulated = None

\* C10: proppant_details is unset until a line containing "Details" has been
\* processed; from then on it is the trimmed lines after the first such line,
\* in order and joined by newlines, up to the first line that is blank or
\* begins with a marker, or unset when that run is empty; when set, none of
\* its lines is empty or begins with a marker.
C10_DetailsRun ==
    /\ (\A k \in 1..i : ~DetailsAt(k)) => data.proppant_details = None
    /\ (\E k \in 1..i : DetailsAt(k)) =>
          LET k    == Min({j \in 1..i : DetailsAt(j)})
              ends == {j \in (k + 1)..Len(lines) : EndsRun(lines[j])}
              e    == IF ends = {} THEN Len(lines) + 1 ELSE Min(ends)
              run  == [j \in 1..(e - k - 1) |-> Strip(lines[k + j])]
          IN  IF e = k + 1 THEN data.proppant_details = None
              ELSE /\ IsSet(data.proppant_details)
                   /\ splitlines(data.proppant_details[1]) = run
                   /\ data.proppant_details[1] = JoinNL(run)
    /\ IsSet(data.proppant_details) =>
          \A l \in {splitlines(data.proppant_details[1])[j] :
                       j \in 1..Len(splitlines(data.proppant_details[1]))} : ~EndsRun(l)

\* C10 witness: "Details" followed by two detail lines, the second of which
\* holds "Type Treatment" without beginning with it, and then a blank line.
C10_Witness ==
    /\ pc = "returned"
    /\ Len(lines) = 4
    /\ DetailsAt(1)
    /\ lines[2] = L_Proppant
    /\ lines[3] = L_TypeInside
    /\ lines[4] = L_Blank
    /\ data.proppant_details = Some(JoinNL(<<Strip(L_Proppant), L_TypeInside>>))

---------------------------------------------------------------------------
(* Properties of parse_well_info                                            *)

\* s without the len characters at p
Without(s, p, len) == SubSeq(s, 1, p - 1) \o SubSeq(s, p + len, Len(s))

\* the value of field f extracted from section s alone
FieldValue(s, f) == MatchAndSet(EmptyWell, s, f)[f]

\* the occurrences of a label-and-value text in the isolated section
SegmentsIn(s) == {[sg |-> sg, p |-> p] : sg \in FieldSegments, p \in 1..Len(s)}

Present(s) == {o \in SegmentsIn(s) : LitAt(s, o.p, o.sg.seg)}

\* the positions in s where the label of field f occurs
LabelStarts(s, f) == {p \in 1..Len(s) : LabelEnd(s, p, LabelOf[f]) > 0}

\* the occurrence o stands in the text that field f's rule reads in s: on the
\* lines its match spans (from the start of the label to the end of the line
\* the value is taken from), right after an occurrence of its label, or
\* between the parts of its label (removing it would join them)
OnMatchedLines(s, o, f) ==
    LET m == Search(s, f)
    IN  \/ m.ok /\ o.p < LineEnd(s, m.from) /\ o.p + Len(o.sg.seg) > m.start
        \/ \E p \in LabelStarts(s, f) :
               /\ LabelEnd(s, p, LabelOf[f]) <= o.p
               /\ SpanEnd(s, LabelEnd(s, p, LabelOf[f]), WhiteSpace) >= o.p
        \/ Cardinality(LabelStarts(Without(s, o.p, Len(o.sg.seg)), f))
               # Cardinality(LabelStarts(s, f))

\* C8 as claimed: removing another field's label and value from the section
\* text leaves every field's value as it was.
C8_FieldsIndependent ==
    pc = "returned" =>
        \A o \in Present(section_text) : \A f \in DOMAIN LabelOf \ {o.sg.field} :
            FieldValue(Without(section_text, o.p, Len(o.sg.seg)), f) = well_data[f]

\* C8 amended: removing another field's label and value from the section text
\* leaves the value of every field other than operator as it was, unless the
\* removed text stood in the text that field's own rule reads: on the lines its
\* match spans, right after its label, or between the parts of its label.
C8_FieldsIndependentExceptOperator ==
    pc = "returned" =>
        \A o \in Present(section_text) :
            \A f \in DOMAIN LabelOf \ {o.sg.field, "operator"} :
                ~OnMatchedLines(section_text, o, f) =>
                    FieldValue(Without(section_text, o.p, Len(o.sg.seg)), f) = well_data[f]

\* C8 witness: operator, API number and well name were extracted; without the
\* API label and number the well name is the same and operator is unset.
C8_Witness ==
    /\ pc = "returned"
    /\ IsSet(well_data.operator) /\ IsSet(well_data.api_number)
    /\ IsSet(well_data.well_name)
    /\ \E o \in Present(section_text) :
          /\ o.sg.field = "api_number"
          /\ ~OnMatchedLines(section_text, o, "well_name")
          /\ FieldValue(Without(section_text, o.p, Len(o.sg.seg)), "well_name")
                = well_data.well_name
          /\ FieldValue(Without(section_text, o.p, Len(o.sg.seg)), "operator") = None

\* the length of the header that occurs in t at p, in any letter case, or 0
HeaderLen(t, p) ==
    IF LitAtCI(t, p, WellInformation) THEN Len(WellInformation)
    ELSE IF LitAtCI(t, p, WellDataSummary) THEN Len(WellDataSummary)
    ELSE 0

\* C9: once isolated, the section is the text after the first occurrence of a
\* header, in any letter case, or the whole text when no header occurs; every
\* field that is set has its label in the section, not at or before the header.
C9_SectionAfterFirstHeader ==
    pc \in {"isolated", "returned"} =>
        /\ IF \E p \in 1..Len(text) : HeaderLen(text, p) > 0
           THEN \E p \in 1..Len(text) :
                   /\ HeaderLen(text, p) > 0
                   /\ \A q \in 1..(p - 1) : HeaderLen(text, q) = 0
                   /\ text = SubSeq(text, 1, p + HeaderLen(text, p) - 1) \o section_text
           ELSE section_text = text
        /\ \A f \in DOMAIN LabelOf :
              IsSet(well_data[f]) =>
                  \E q \in 1..Len(section_text) : LitAtCI(section_text, q, LabelOf[f][1])

\* C9 witness: a well name stands before the first header and another header
\* follows; the well name is not extracted, a field after the header is.
C9_Witness ==
    /\ pc = "returned"
    /\ LitAt(text, 1, W_Name)
    /\ Cardinality({p \in 1..Len(text) : HeaderLen(text, p) > 0}) >= 1
    /\ well_data.well_name = None
    /\ IsSet(well_data.datum)

---------------------------------------------------------------------------
(* Properties of main                                                       *)

\* the folder entries handled so far that are PDFs
Processed == {d \in 1..n : folder[d].pdf}

Forwarded(fn, d) == \E c \in 1..Len(calls) : calls[c].fn = fn /\ calls[c].doc = d

\* the stimulation record of folder entry d
StimOf(d) == parse_stimulation_data(folder[d].text, pads_year)

\* C1 as claimed: the stimulation record of a processed document is forwarded
\* if and only if its date_stimulated or its stimulated_formation is set (is
\* not None); the well record is forwarded in every case.
C1_ForwardedIffSet ==
    \A d \in Processed :
        /\ Forwarded("insert_well_info", d)
        /\ Forwarded("insert_stimulation_data", d)
              <=> (IsSet(StimOf(d).date_stimulated) \/ IsSet(StimOf(d).stimulated_formation))

\* C1 amended: the stimulation record of a processed document is forwarded if
\* and only if its date_stimulated is set or its stimulated_formation is a
\* non-empty string; the well record is forwarded in every case, and nothing is
\* forwarded for a file that is not a PDF.
C1_ForwardedIffNonEmpty ==
    /\ \A d \in Processed :
          /\ Forwarded("insert_well_info", d)
          /\ Forwarded("insert_stimulation_data", d)
                <=> \/ StimOf(d).date_stimulated # None
                    \/ StimOf(d).stimulated_formation \notin {None, Some(<<>>)}
    /\ \A d \in 1..Len(folder) :
          ~folder[d].pdf => \A c \in 1..Len(calls) : calls[c].doc # d

\* C1 witness: a processed document whose record has no date and the empty
\* string as formation was not forwarded, its well record was; another
\* document with a formation and no date was forwarded.
C1_Witness ==
    /\ pc = "done"
    /\ \E d \in Processed :
          /\ StimOf(d).date_stimulated = None
          /\ StimOf(d).stimulated_formation = Some(<<>>)
          /\ IsSet(StimOf(d).top_depth)
          /\ ~Forwarded("insert_stimulation_data", d)
          /\ Forwarded("insert_well_info", d)
    /\ \E d \in Processed :
          /\ StimOf(d).date_stimulated = None
          /\ Forwarded("insert_stimulation_data", d)

\* C2: every stimulation insert comes after the well insert of the same
\* document and carries the identity that insert returned; every stored
\* stimulation row references a stored well row of its own document; no
\* document has two stimulation rows.
C2_StimulationReferencesOwnWell ==
    /\ \A c \in 1..Len(calls) :
          calls[c].fn = "insert_stimulation_data" =>
              \E b \in 1..(c - 1) : /\ calls[b].fn = "insert_well_info"
                                    /\ calls[b].doc = calls[c].doc
                                    /\ calls[b].id = calls[c].id
    /\ \A r \in 1..Len(stimulation_tbl) :
          \E w \in 1..Len(well_info_tbl) :
              /\ well_info_tbl[w].id = stimulation_tbl[r].well_info_id
              /\ well_info_tbl[w].doc = stimulation_tbl[r].doc
    /\ \A r1, r2 \in 1..Len(stimulation_tbl) :
          stimulation_tbl[r1].doc = stimulation_tbl[r2].doc => r1 = r2

\* C2 witness: the table held a row before the run, two documents each stored
\* a stimulation row, with different well identities, and one stored none.
C2_Witness ==
    /\ pc = "done"
    /\ Len(well_info_tbl) = 4
    /\ well_info_tbl[1].doc = 0
    /\ Len(stimulation_tbl) = 2
    /\ stimulation_tbl[1].well_info_id # stimulation_tbl[2].well_info_id

=============================================================================
